---- MODULE Spec2Model ----
(***************************************************************************)
(* A model of ufo_filter (src/ufo_filter/__init__.py): the tag grammar,    *)
(* the Context object, the recursive line parser and the file parser.      *)
(*                                                                         *)
(* A Python string is a sequence of one-character strings.  A Python       *)
(* object is a function from attribute names to tagged values, as its      *)
(* __dict__ is; hasattr/getattr/setattr are modelled on that function.     *)
(***************************************************************************)
EXTENDS Integers, Sequences, FiniteSets, TLC

(***************************************************************************)
(* Character classes of the regular expressions (lines 74-78).             *)
(***************************************************************************)
Upper == {"A","B","C","D","E","F","G","H","I","J","K","L","M",
          "N","O","P","Q","R","S","T","U","V","W","X","Y","Z"}

Lower == {"a","b","c","d","e","f","g","h","i","j","k","l","m",
          "n","o","p","q","r","s","t","u","v","w","x","y","z"}

Digit == {"0","1","2","3","4","5","6","7","8","9"}

\* [_a-zA-Z]
TagStartChars == Upper \cup Lower \cup {"_"}

\* [_0-9a-zA-Z \-]
TagChars == Upper \cup Lower \cup Digit \cup {"_", " ", "-"}

\* [_\.a-zA-Z0-9]
NsChars == Upper \cup Lower \cup Digit \cup {"_", "."}

\* [_\.0-9/=$@<>()a-zA-Z \-,]
ArgChars == Upper \cup Lower \cup Digit \cup
            {"_", ".", "/", "=", "$", "@", "<", ">", "(", ")", " ", "-", ","}

\* F applied to the value of bound, which is evaluated once, whatever F does
\* with it.
With(bound, F(_)) == CHOOSE got \in {F(one) : one \in {bound}} : TRUE

SetMin(S) == CHOOSE x \in S : \A y \in S : x <= y

SetMax(S) == CHOOSE x \in S : \A y \in S : x >= y

\* The first index >= i of s whose character is outside Cls, or Len(s)+1.
RunEnd(s, i, Cls) ==
    LET stops == {j \in i..Len(s) : s[j] \notin Cls}
    IN  IF stops = {} THEN Len(s) + 1 ELSE SetMin(stops)

\* A failed search (rex.search returns None).
NoMatch == [ok |-> FALSE, p |-> 0, q |-> 0, end |-> 0,
            ns |-> <<>>, tag |-> <<>>, args |-> <<>>]

(***************************************************************************)
(* The part of rex after the boundary group, tried at index q:             *)
(*   @ (ns \.)? tag ( \( args \) )? @                                      *)
(* The characters from q+1 up to the first "(" or "@" are the namespace    *)
(* and the tag: the tag cannot hold a ".", so the greedy namespace ends at *)
(* the last "." before it.  The greedy argument list backs off to the last *)
(* ")@" of the run of argument characters.  ns and args are <<>> where the *)
(* group did not take part (None) or matched the empty string: the code    *)
(* only tests them for truth.                                              *)
(***************************************************************************)
RexRest(s, q) ==
    IF q > Len(s) \/ q < 1 THEN NoMatch
    ELSE IF s[q] # "@" THEN NoMatch
    ELSE
    With(RunEnd(s, q + 1, NsChars \cup TagChars), LAMBDA e :
    With({j \in (q + 1)..(e - 1) : s[j] = "."}, LAMBDA dots :
    With(IF dots = {} THEN q ELSE SetMax(dots), LAMBDA d :
    LET nsOK  == dots = {} \/
                 (d - 1 >= q + 1 /\ \A j \in (q + 1)..(d - 1) : s[j] \in NsChars)
        tagOK == d + 1 <= e - 1 /\ s[d + 1] \in TagStartChars
        ns    == IF dots = {} THEN <<>> ELSE SubSeq(s, q + 1, d - 1)
        tag   == SubSeq(s, d + 1, e - 1)
    IN  IF e > Len(s) \/ ~nsOK \/ ~tagOK THEN NoMatch
        ELSE IF s[e] = "@"
             THEN [ok |-> TRUE, p |-> q, q |-> q, end |-> e,
                   ns |-> ns, tag |-> tag, args |-> <<>>]
        ELSE IF s[e] = "("
             THEN With(RunEnd(s, e + 1, ArgChars) - 1, LAMBDA m :
                  With({k \in e..m : /\ k + 2 <= Len(s)
                                      /\ s[k + 1] = ")"
                                      /\ s[k + 2] = "@"}, LAMBDA ks :
                  IF ks = {} THEN NoMatch
                  ELSE With(SetMax(ks), LAMBDA k :
                       [ok |-> TRUE, p |-> q, q |-> q, end |-> k + 2,
                        ns |-> ns, tag |-> tag,
                        args |-> SubSeq(s, e + 1, k)])))
        ELSE NoMatch)))

\* The length of alternative a of the boundary group (^|[^@]|@@@|@@@@@@)
\* when it matches at index p of s, or -1 when it does not.
RexBoundary(s, p, a) ==
    CASE a = 1 -> IF p = 1 THEN 0 ELSE -1
      [] a = 2 -> IF p <= Len(s) /\ s[p] # "@" THEN 1 ELSE -1
      [] a = 3 -> IF p + 2 <= Len(s) /\ \A j \in p..(p + 2) : s[j] = "@"
                  THEN 3 ELSE -1
      [] OTHER -> IF p + 5 <= Len(s) /\ \A j \in p..(p + 5) : s[j] = "@"
                  THEN 6 ELSE -1

\* rex.search(s): the leftmost match, the alternatives of the boundary
\* group tried in order.  p is the first index of the match, q the index of
\* the opening "@" (reo.start(2) - 1, counted from 1), end its last index.
\* The pattern can also begin at Len(s)+1 only with an empty boundary, which
\* then has no "@" to go on with.
RexSearch(s) ==
    With({c \in (1..Len(s)) \X (1..4) :
            /\ RexBoundary(s, c[1], c[2]) >= 0
            /\ RexRest(s, c[1] + RexBoundary(s, c[1], c[2])).ok}, LAMBDA cands :
    IF cands = {} THEN NoMatch
    ELSE With(SetMin({c[1] : c \in cands}), LAMBDA p :
         With(SetMin({c[2] : c \in {x \in cands : x[1] = p}}), LAMBDA a :
         [RexRest(s, p + RexBoundary(s, p, a)) EXCEPT !.p = p])))

\* rex.sub(repl, s, 1): the first match of s, boundary group included,
\* replaced by repl (a template without backslashes stands for itself).
RexSubOnce(repl, s) ==
    With(RexSearch(s), LAMBDA m :
    IF ~m.ok THEN s
    ELSE SubSeq(s, 1, m.p - 1) \o repl \o SubSeq(s, m.end + 1, Len(s)))

\* atx.sub('@', s): every non-overlapping "@@@" from the left becomes "@".
RECURSIVE AtxSub(_)
AtxSub(s) ==
    IF s = <<>> THEN <<>>
    ELSE IF Len(s) >= 3 /\ s[1] = "@" /\ s[2] = "@" /\ s[3] = "@"
         THEN <<"@">> \o AtxSub(SubSeq(s, 4, Len(s)))
         ELSE <<s[1]>> \o AtxSub(Tail(s))

(***************************************************************************)
(* Python values.  Every value is a record [k, v]: k is its type.          *)
(***************************************************************************)
PyStr(s) == [k |-> "str", v |-> s]

PyInt(n) == [k |-> "int", v |-> n]

PyBool(b) == [k |-> "bool", v |-> b]

PyNone == [k |-> "none", v |-> <<>>]

\* A list of strings (dirname, tagNames).
PyList(l) == [k |-> "list", v |-> l]

\* A dictionary: a function from strings (tagDefaults, subcontexts).
PyDict(f) == [k |-> "dict", v |-> f]

\* A reference to the Context object with identity c.
PyRef(c) == [k |-> "ctx", v |-> c]

\* A bound method of the Context class.
Method(n) == [k |-> "method", v |-> n]

\* A method a subclass of Context adds as a tag (lines 55-68).
Fn(f) == [k |-> "fn", v |-> f]

\* A compiled tag-definition pattern, by its key in tdrexes.
Rex(n) == [k |-> "rex", v |-> n]

\* An exception instance: its class, its args, and for the messages built
\* at lines 230-239 which of them it is.
Exc(type, fmt, args) == [k |-> "exc", v |-> [type |-> type, fmt |-> fmt, args |-> args]]

\* Python's truth value of a value (if x:).
Truthy(x) ==
    CASE x.k = "str"  -> x.v # <<>>
      [] x.k = "int"  -> x.v # 0
      [] x.k = "bool" -> x.v
      [] x.k = "none" -> FALSE
      [] x.k = "list" -> x.v # <<>>
      [] x.k = "dict" -> DOMAIN x.v # {}
      [] OTHER        -> TRUE

\* callable(x)
Callable(x) == x.k \in {"method", "fn"}

(***************************************************************************)
(* Attribute names of a Context (lines 255-273) and the words of the code. *)
(***************************************************************************)
A_ALLOW_UNKNOWN_TAGS ==
    <<"A","L","L","O","W","_","U","N","K","N","O","W","N","_","T","A","G","S">>

A_ALLOW_DEFAULT_TAGS ==
    <<"A","L","L","O","W","_","D","E","F","A","U","L","T","_","T","A","G","S">>

A_ALLOW_TAG_OVERRIDES ==
    <<"A","L","L","O","W","_","T","A","G","_","O","V","E","R","R","I","D","E","S">>

A_ENABLE_TAG_APPENDS ==
    <<"E","N","A","B","L","E","_","T","A","G","_","A","P","P","E","N","D","S">>

A_ALLOW_TAG_DEFAULTS ==
    <<"A","L","L","O","W","_","T","A","G","_","D","E","F","A","U","L","T","S">>

A_AUTO_SELECT_TD == <<"A","U","T","O","_","S","E","L","E","C","T","_","T","D">>

A_name == <<"n","a","m","e">>

A_tagNames == <<"t","a","g","N","a","m","e","s">>

A_tagDefaults == <<"t","a","g","D","e","f","a","u","l","t","s">>

A_dirname == <<"d","i","r","n","a","m","e">>

A_parent == <<"p","a","r","e","n","t">>

A_tdrex == <<"t","d","r","e","x">>

A_subcontexts == <<"s","u","b","c","o","n","t","e","x","t","s">>

\* Methods of class Context that read or change the directory stack
\* (lines 275-282).  They are attributes of every Context, as all its
\* methods are; these three are the ones the model lets a line name.
M_curdir == <<"c","u","r","d","i","r">>

M_pushdir == <<"p","u","s","h","d","i","r">>

M_popdir == <<"p","o","p","d","i","r">>

ClassMethods == {M_curdir, M_pushdir, M_popdir}

\* 'gotns' (line 190), "UNDEFINED" (line 198), ", " (line 377), '.' (254, 266)
S_gotns == <<"g","o","t","n","s">>

S_UNDEFINED == <<"U","N","D","E","F","I","N","E","D">>

S_CommaSpace == <<",", " ">>

S_Dot == <<".">>

\* The dictionary d with key a set to x.
DictSet(d, a, x) == [y \in DOMAIN d \cup {a} |-> IF y = a THEN x ELSE d[y]]

\* hasattr(self, a): an instance attribute or a method of the class.
HasAttr(self, a) == a \in DOMAIN self \/ a \in ClassMethods

\* getattr(self, a), for an attribute that exists: the instance attribute
\* hides the method of the class.
GetAttr(self, a) == IF a \in DOMAIN self THEN self[a] ELSE Method(a)

\* Context.__init__(name, parent) (lines 254-273); parent is the parent's
\* attributes, or PyNone; me and up are the identities of the new object and
\* of the parent.
ContextInit(name, me, up, parent) ==
    (A_ALLOW_UNKNOWN_TAGS :> PyInt(0)) @@
    (A_ALLOW_DEFAULT_TAGS :> PyBool(TRUE)) @@
    (A_ALLOW_TAG_OVERRIDES :> PyInt(0)) @@
    (A_ENABLE_TAG_APPENDS :> PyInt(0)) @@
    (A_ALLOW_TAG_DEFAULTS :> PyBool(TRUE)) @@
    (A_AUTO_SELECT_TD :> PyBool(TRUE)) @@
    (A_name :> PyStr(name)) @@
    (A_tagNames :> PyList(<<>>)) @@
    (A_tagDefaults :> PyDict(<<>>)) @@
    (A_dirname :> PyList(<<S_Dot>>)) @@
    (A_parent :> IF parent = PyNone THEN PyRef(me) ELSE PyRef(up)) @@
    (A_tdrex :> IF parent = PyNone THEN Rex("nv_tab") ELSE parent[A_tdrex]) @@
    (A_subcontexts :> PyDict(<<>>))

(***************************************************************************)
(* The result of running a piece of code on the object store o (a function *)
(* from Context identities to attributes): it returns v (k = "ret"),       *)
(* raises the exception v (k = "raise"), or has called Parse on the file   *)
(* named v and waits for it (k = "call").  o is the store it leaves, pr    *)
(* what it printed, and inv the argument lists of the calls of callable    *)
(* attributes it made (none, or one).                                      *)
(***************************************************************************)
Ret(x, o, pr) == [k |-> "ret", v |-> x, o |-> o, pr |-> pr, inv |-> <<>>]

Raise(x, o, pr) == [k |-> "raise", v |-> x, o |-> o, pr |-> pr, inv |-> <<>>]

Call(x, o, pr) == [k |-> "call", v |-> x, o |-> o, pr |-> pr, inv |-> <<>>]

\* A line of output: which print statement, and the text it prints.
Pr(what, text) == [what |-> what, text |-> text]

\* string.replace(argsv, ' ', '') (line 328)
RemoveSpaces(s) == SelectSeq(s, LAMBDA ch : ch # " ")

\* string.split(argsv, ',') (line 329)
RECURSIVE SplitCommas(_)
SplitCommas(s) ==
    LET commas == {i \in 1..Len(s) : s[i] = ","}
    IN  IF commas = {} THEN <<s>>
        ELSE LET i == SetMin(commas)
             IN  <<SubSeq(s, 1, i - 1)>> \o SplitCommas(SubSeq(s, i + 1, Len(s)))

S_hello == <<"h","e","l","l","o",","," ">>

S_boom == <<"b","o","o","m">>

\* The tag methods of a subclass of Context (the MyContext of lines 61-65),
\* called with the argument strings argv:
\*   greet(name)  returns "hello, " + name
\*   boom(*a)     raises ValueError
\*   bang(*a)     raises KeyError
\*   include(f)   returns Parse(f, self)
CallFn(o, c, f, argv) ==
    CASE f = "greet" ->
            IF Len(argv) = 1 THEN Ret(PyStr(S_hello \o argv[1]), o, <<>>)
            ELSE Raise(Exc("TypeError", "", <<>>), o, <<>>)
      [] f = "boom" -> Raise(Exc("ValueError", "", <<PyStr(S_boom)>>), o, <<>>)
      [] f = "bang" -> Raise(Exc("KeyError", "", <<PyStr(S_boom)>>), o, <<>>)
      [] OTHER ->
            IF Len(argv) = 1 THEN Call(PyStr(argv[1]), o, <<>>)
            ELSE Raise(Exc("TypeError", "", <<>>), o, <<>>)

\* curdir, pushdir and popdir (lines 275-282) called with the strings argv.
CallMethod(o, c, m, argv) ==
    LET dn == GetAttr(o[c], A_dirname)
    IN  IF dn.k # "list" THEN Raise(Exc("AttributeError", "", <<>>), o, <<>>)
        ELSE CASE m = M_curdir ->
                    IF Len(argv) # 0 THEN Raise(Exc("TypeError", "", <<>>), o, <<>>)
                    ELSE IF dn.v = <<>> THEN Raise(Exc("IndexError", "", <<>>), o, <<>>)
                    ELSE Ret(PyStr(dn.v[Len(dn.v)]), o, <<>>)
               [] m = M_pushdir ->
                    IF Len(argv) # 1 THEN Raise(Exc("TypeError", "", <<>>), o, <<>>)
                    ELSE Ret(PyNone,
                             [o EXCEPT ![c] = DictSet(@, A_dirname,
                                                      PyList(Append(dn.v, argv[1])))],
                             <<>>)
               [] OTHER ->
                    IF Len(argv) # 0 THEN Raise(Exc("TypeError", "", <<>>), o, <<>>)
                    ELSE IF dn.v = <<>> THEN Raise(Exc("IndexError", "", <<>>), o, <<>>)
                    ELSE Ret(PyStr(dn.v[Len(dn.v)]),
                             [o EXCEPT ![c] = DictSet(@, A_dirname,
                                                      PyList(SubSeq(dn.v, 1, Len(dn.v) - 1)))],
                             <<>>)

\* attr(*argv) for a callable attribute of Context c.
CallAttr(o, c, attr, argv) ==
    IF attr.k = "fn" THEN CallFn(o, c, attr.v, argv)
    ELSE CallMethod(o, c, attr.v, argv)

\* Context.getDefault(tag) (lines 364-368)
GetDefault(self, tag) ==
    LET td == self[A_tagDefaults].v
    IN  IF tag \in DOMAIN td THEN td[tag] ELSE PyNone

\* Context.tagDefault(tag, replacement) (lines 361-362)
TagDefault(self, tag, replacement) ==
    DictSet(self, A_tagDefaults, PyDict(DictSet(self[A_tagDefaults].v, tag, replacement)))

\* Context.getContext(name) (lines 290-297)
GetContext(self, name) ==
    LET sc == self[A_subcontexts].v
    IN  IF name \in DOMAIN sc THEN PyRef(sc[name]) ELSE PyNone

\* Context.addContext(context) (lines 300-305): child is the identity of
\* the context added, childName its name.
AddContext(self, childName, child) ==
    DictSet(self, A_subcontexts, PyDict(DictSet(self[A_subcontexts].v, childName, child)))

\* replace with an undefined tag always passed through, as if
\* ALLOW_UNKNOWN_TAGS were set.
Replace_Lenient(o, c, gottag, argsv) ==
    LET self == o[c]
    IN  IF HasAttr(self, gottag)
        THEN LET attr == GetAttr(self, gottag)
             IN  IF Callable(attr)
                 THEN IF argsv # <<>>
                      THEN LET argv == SplitCommas(RemoveSpaces(argsv))
                           IN  [CallAttr(o, c, attr, argv) EXCEPT !.inv = <<argv>>]
                      ELSE LET r == [CallAttr(o, c, attr, <<>>) EXCEPT !.inv = <<<<>>>>]
                           IN  IF r.k = "raise"
                               THEN [r EXCEPT !.pr = @ \o <<Pr("Caught an exception generated inside the replacement function for tag", gottag)>>]
                               ELSE r
                 ELSE Ret(attr, o, <<>>)
        ELSE LET dflt == IF Truthy(self[A_ALLOW_DEFAULT_TAGS])
                         THEN GetDefault(self, gottag) ELSE PyNone
             IN  IF Truthy(dflt) THEN Ret(dflt, o, <<>>)
                 ELSE Ret(PyStr(gottag), o, <<Pr("Warning: Undefined tag", gottag)>>)

\* Context.replace(gottag, argsv) on Context c (lines 316-359).  argsv is
\* <<>> for None and for the empty string.
Replace(o, c, gottag, argsv) ==
    LET self == o[c]
    IN  IF HasAttr(self, gottag)
        THEN LET attr == GetAttr(self, gottag)
             IN  IF Callable(attr)
                 THEN IF argsv # <<>>
                      THEN LET argv == SplitCommas(RemoveSpaces(argsv))
                           IN  [CallAttr(o, c, attr, argv) EXCEPT !.inv = <<argv>>]
                      ELSE LET r == [CallAttr(o, c, attr, <<>>) EXCEPT !.inv = <<<<>>>>]
                           IN  IF r.k = "raise"
                               THEN [r EXCEPT !.pr = @ \o <<Pr("Caught an exception generated inside the replacement function for tag", gottag)>>]
                               ELSE r
                 ELSE Ret(attr, o, <<>>)
        ELSE LET dflt == IF Truthy(self[A_ALLOW_DEFAULT_TAGS])
                         THEN GetDefault(self, gottag) ELSE PyNone
             IN  IF Truthy(dflt) THEN Ret(dflt, o, <<>>)
                 ELSE IF Truthy(self[A_ALLOW_UNKNOWN_TAGS])
                 THEN Ret(PyStr(gottag), o, <<Pr("Warning: Undefined tag", gottag)>>)
                 ELSE Raise(Exc("ValueError", "", <<PyStr(gottag)>>), o,
                            <<Pr("Undefined tag", gottag)>>)

\* Context.tagDefine(tag, replacement) on Context c (lines 370-384).
TagDefine(o, c, tag, replacement) ==
    LET self == o[c]
        has  == HasAttr(self, tag)
        over == has /\ Truthy(self[A_ALLOW_TAG_OVERRIDES])
        app  == has /\ ~over /\ Truthy(self[A_ENABLE_TAG_APPENDS])
        old  == GetAttr(self, tag)
        pr   == IF over THEN <<Pr("warning: overriding tag definition", tag)>>
                ELSE IF app THEN <<Pr("warning: appending to tag", tag)>>
                ELSE IF has THEN <<Pr("error: overriding tag definition", tag)>>
                ELSE <<>>
    IN  IF has /\ ~over /\ ~app THEN Raise(Exc("Exception", "", <<>>), o, pr)
        ELSE IF app /\ (old.k # "str" \/ replacement.k # "str")
        THEN Raise(Exc("TypeError", "", <<>>), o, pr)
        ELSE LET rep == IF app THEN PyStr(old.v \o S_CommaSpace \o replacement.v)
                        ELSE replacement
                 o1  == [o EXCEPT ![c] = DictSet(self, tag, rep)]
                 tn  == o1[c][A_tagNames]
             IN  IF tn.k # "list" THEN Raise(Exc("AttributeError", "", <<>>), o1, pr)
                 ELSE Ret(PyNone,
                          [o1 EXCEPT ![c] = DictSet(@, A_tagNames, PyList(Append(tn.v, tag)))],
                          pr)

(***************************************************************************)
(* Bounds of the model.                                                    *)
(***************************************************************************)
\* lineParser goes round its loop only while the line is this short ...
MaxLen == 14

\* ... and has gone round fewer times than this,
MaxIter == 4

\* calls nest no deeper than this,
MaxDepth == 4

\* and Parse is called from outside at most this often.
MaxCalls == 2

\* line[:80] (lines 231, 239)
LineQuote == 80

(***************************************************************************)
(* The state.                                                              *)
(*   obj            the Context objects: identity -> attributes            *)
(*   stack          the calls of lineParser and Parse under way, the       *)
(*                  innermost last                                         *)
(*   reg            what the call that just ended handed to its caller:    *)
(*                  a returned value, a raised exception, or nothing       *)
(*   alreadyCaught  the module's global (lines 95-96)                      *)
(*   out            what was printed, in order                             *)
(*   calls          the calls of Context.replace lineParser made so far    *)
(*   ncalls         how many times Parse was called from outside           *)
(*   given          the context and the text (a line, a path) the call     *)
(*                  from outside was given                                 *)
(*   pre            the line of the lineParser that returned last, as it   *)
(*                  was before the final unescape (line 243)               *)
(***************************************************************************)
VARIABLES obj, stack, reg, alreadyCaught, out, calls, ncalls, given, pre

vars == <<obj, stack, reg, alreadyCaught, out, calls, ncalls, given, pre>>

RegNone == [k |-> "none", v |-> PyNone]

RegVal(x) == [k |-> "val", v |-> x]

RegExc(x) == [k |-> "exc", v |-> x]

\* The frame of a call lineParser(line, context) at line 172.
LineFrame(c, line) ==
    [fn |-> "lineParser", ctx |-> c, at |-> "loop", line |-> line,
     linestack |-> <<>>, m |-> NoMatch, cur |-> c, gottag |-> <<>>,
     infile |-> <<>>, lines |-> <<>>, linecount |-> 0, newtext |-> <<>>]

\* The frame of a call Parse(infile, context) at line 147, with the lines
\* readlines() has still to give.
ParseFrame(c, infile, lines) ==
    [fn |-> "Parse", ctx |-> c, at |-> "loop", line |-> <<>>,
     linestack |-> <<>>, m |-> NoMatch, cur |-> c, gottag |-> <<>>,
     infile |-> infile, lines |-> lines, linecount |-> 0, newtext |-> <<>>]

Top == stack[Len(stack)]

Below == SubSeq(stack, 1, Len(stack) - 1)

\* os.path.dirname(infile) (line 140): the path up to its last "/", without
\* trailing slashes unless it is slashes only.
Dirname(path) ==
    LET sl   == {i \in 1..Len(path) : path[i] = "/"}
        i    == IF sl = {} THEN 0 ELSE SetMax(sl)
        head == SubSeq(path, 1, i)
        keep == {j \in 1..Len(head) : head[j] # "/"}
    IN  IF keep = {} THEN head ELSE SubSeq(head, 1, SetMax(keep))

\* The files Parse can be given: path -> lines, each ending in a newline.
\* A path outside the domain cannot be opened.
FileSystem ==
    (<<"t">> :> << <<"x","\n">>, <<"@","A","@","\n">> >>) @@
    (<<"d","/","u">> :> << <<"@","B","@","\n">>, <<"@","Z","@","\n">>, <<"x","\n">> >>) @@
    (<<"d","/","p">> :> << <<"@","p","o","p","d","i","r","@","@","p","o","p","d","i","r","@","\n">> >>) @@
    (<<"e","/","i">> :> << <<"@","I","(","t",")","@","\n">> >>) @@
    (<<"e","/","j">> :> << <<"@","I","(","d","/","u",")","@","\n">> >>) @@
    (<<"f">> :> << <<"@","b","o","o","m","@","\n">> >>) @@
    (<<"g">> :> << <<"@","b","a","n","g","@","\n">> >>) @@
    (<<"h">> :> << <<"@","G","R","E","E","T","(","@","Z","@",")","@","\n">> >>)

\* Lines 138-145 of Parse: push the directory of infile, open it.
ParseEnter(o, c, infile) ==
    LET r == CallMethod(o, c, M_pushdir, <<Dirname(infile)>>)
    IN  IF r.k = "raise" THEN r
        ELSE IF infile \notin DOMAIN FileSystem
        THEN Raise(Exc("IOError", "", <<PyStr(infile)>>), r.o, <<>>)
        ELSE Ret(PyNone, r.o, <<>>)

\* SelectContext with an unknown namespace looked up in the parent context.
SelectContext_Parent(self, me, m) ==
    IF m.ns # <<>>
    THEN IF self[A_name] = PyStr(S_gotns)
         THEN [c |-> me, tag |-> m.tag, pr |-> <<>>]
         ELSE LET tmpctx == GetContext(self, m.ns)
              IN  IF Truthy(tmpctx)
                  THEN [c |-> tmpctx.v, tag |-> m.tag, pr |-> <<>>]
                  ELSE [c |-> self[A_parent].v, tag |-> m.tag, pr |-> <<>>]
    ELSE [c |-> me, tag |-> m.tag, pr |-> <<>>]

\* Lines 188-201 of lineParser: the context and the tag to look up for the
\* match m, in the context with attributes self and identity me.
SelectContext(self, me, m) ==
    IF m.ns # <<>>
    THEN IF self[A_name] = PyStr(S_gotns)
         THEN [c |-> me, tag |-> m.tag, pr |-> <<>>]
         ELSE LET tmpctx == GetContext(self, m.ns)
              IN  IF Truthy(tmpctx)
                  THEN [c |-> tmpctx.v, tag |-> m.tag, pr |-> <<>>]
                  ELSE [c |-> me, tag |-> S_UNDEFINED,
                        pr |-> <<Pr("No such context", m.ns)>>]
    ELSE [c |-> me, tag |-> m.tag, pr |-> <<>>]

\* Lines 211-212: the line with the match at q replaced by newtext.
Splice(line, q, newtext) ==
    SubSeq(line, 1, q - 1) \o RexSubOnce(newtext, SubSeq(line, q, Len(line)))

\* The seq s reversed (linestack.reverse()).
Reverse(s) == [i \in 1..Len(s) |-> s[Len(s) + 1 - i]]

\* Lines 213-239: the handlers of the try block, for the exception e raised
\* in it while the frame f looked up gottag.  The exception lineParser
\* raises, what it prints, and alreadyCaught afterwards.
Handle(f, gottag, e, ac) ==
    LET n    == Len(f.linestack)
        rest == Reverse(SubSeq(f.linestack, 1, n - 1))
        quote == SubSeq(f.line, 1, IF Len(f.line) < LineQuote THEN Len(f.line) ELSE LineQuote)
    IN  CASE e.v.type = "ValueError" ->
               [exc |-> Exc("ValueError", "", <<e, PyStr(f.line)>>),
                pr  |-> <<Pr(IF ac THEN "from text" ELSE "in text", f.linestack[n])>> \o
                        [i \in 1..(n - 1) |->
                           Pr(IF i = n - 1 THEN "from original text"
                              ELSE "from previous text", rest[i])],
                ac  |-> TRUE]
          [] e.v.type = "InvalidReplacement" ->
               [exc |-> Exc("Exception", "Caught exception while parsing",
                            <<PyStr(gottag), PyStr(quote)>>),
                pr  |-> <<Pr("Invalid replacement text", <<>>)>>,
                ac  |-> ac]
          [] e.v.type = "UnknownContext" ->
               [exc |-> Exc("Exception", "Generated UnknownContext Exception",
                            <<e, PyStr(gottag)>>),
                pr  |-> <<Pr("exception", <<>>)>>,
                ac  |-> ac]
          [] OTHER ->
               [exc |-> Exc("Exception", "Caught exception while parsing",
                            <<PyStr(gottag), PyStr(quote)>>),
                pr  |-> <<Pr("exception", <<>>)>>,
                ac  |-> ac]


\* A line of output of Parse's handler (lines 153-154).
PrAt(infile, n) == [what |-> "while parsing file", text |-> infile, at |-> n]

\* Finish with the loop left after the first substitution (done = True set
\* once a tag is replaced).
Finish_OnePass(rest, f, gottag, r, prs) ==
    LET good == r.k = "ret" /\ r.v.k = "str"
        e    == IF r.k = "raise" THEN r.v ELSE Exc("TypeError", "", <<>>)
        h    == Handle(f, gottag, e, alreadyCaught)
    IN  /\ obj' = r.o
        /\ stack' = rest
        /\ IF good
           THEN /\ pre' = Splice(f.line, f.m.q, r.v.v)
                /\ reg' = RegVal(PyStr(AtxSub(Splice(f.line, f.m.q, r.v.v))))
                /\ out' = out \o prs \o r.pr
                /\ UNCHANGED alreadyCaught
           ELSE /\ reg' = RegExc(h.exc)
                /\ out' = out \o prs \o r.pr \o h.pr
                /\ alreadyCaught' = h.ac
                /\ UNCHANGED pre

(***************************************************************************)
(* Lines 204-239 of lineParser, from the moment replace has given r (a     *)
(* return or a raise) to the frame f, which stands above the frames rest:  *)
(* the splice and the next round of the loop, or a handler and the raise.  *)
(* A replacement that is no string makes rex.sub raise TypeError.          *)
(***************************************************************************)
Finish(rest, f, gottag, r, prs) ==
    LET good == r.k = "ret" /\ r.v.k = "str"
        e    == IF r.k = "raise" THEN r.v ELSE Exc("TypeError", "", <<>>)
        h    == Handle(f, gottag, e, alreadyCaught)
    IN  /\ obj' = r.o
        /\ UNCHANGED pre
        /\ IF good
           THEN /\ stack' = rest \o <<[f EXCEPT !.at = "loop",
                                              !.line = Splice(f.line, f.m.q, r.v.v)]>>
                /\ reg' = RegNone
                /\ out' = out \o prs \o r.pr
                /\ UNCHANGED alreadyCaught
           ELSE /\ stack' = rest
                /\ reg' = RegExc(h.exc)
                /\ out' = out \o prs \o r.pr \o h.pr
                /\ alreadyCaught' = h.ac

\* The record, in calls, of the call sel.c.replace(sel.tag, gotargv) that
\* lineParser, called with Context inctx, made for the match m and that
\* ended as r: the namespace, tag and argument text of the match, the
\* context and tag looked up, the argument text passed (and what it was
\* before lineParser unescaped it), the argument lists of the callables
\* called, and how replace ended.
CallRecord(inctx, m, sel, gotargv, prearg, r) ==
    [in |-> inctx, ns |-> m.ns, name |-> m.tag, raw |-> m.args,
     ctx |-> sel.c, tag |-> sel.tag, resolved |-> gotargv, prearg |-> prearg,
     inv |-> r.inv, res |-> [k |-> r.k, v |-> r.v]]

(***************************************************************************)
(* Lines 188-239 of lineParser for the frame f, whose match f.m is found   *)
(* and whose argument text gotargv is resolved: pick the context, call     *)
(* replace, then Finish; a tag method that calls Parse leaves f waiting    *)
(* for it.                                                                 *)
(***************************************************************************)
Settle(rest, f, gotargv, prearg) ==
    \E sel \in {SelectContext(obj[f.ctx], f.ctx, f.m)} :
    \E r \in {Replace(obj, sel.c, sel.tag, gotargv)} :
    LET pe  == ParseEnter(r.o, sel.c, r.v.v)
    IN  /\ calls' = Append(calls, CallRecord(f.ctx, f.m, sel, gotargv, prearg, r))
        /\ UNCHANGED <<ncalls, given>>
        /\ IF r.k # "call" THEN Finish(rest, f, sel.tag, r, sel.pr)
           ELSE IF pe.k = "raise" THEN Finish(rest, f, sel.tag, pe, sel.pr)
           ELSE /\ stack' = rest \o <<[f EXCEPT !.at = "call", !.cur = sel.c,
                                                !.gottag = sel.tag]>>
                                 \o <<ParseFrame(sel.c, r.v.v, FileSystem[r.v.v])>>
                /\ obj' = pe.o
                /\ reg' = RegNone
                /\ out' = out \o sel.pr
                /\ UNCHANGED <<alreadyCaught, pre>>

\* Searched with a guard: from the third round on no tag is looked for.
Searched_Guarded(f) ==
    [f EXCEPT !.linestack = Append(@, f.line),
              !.m = IF Len(f.linestack) >= 2 THEN NoMatch ELSE RexSearch(f.line)]

\* The frame f at line 176-177: the line is recorded and searched.
Searched(f) ==
    [f EXCEPT !.linestack = Append(@, f.line), !.m = RexSearch(f.line)]

\* The top frame is lineParser's, about to go round its loop (line 175).
AtLoop ==
    /\ stack # <<>>
    /\ reg.k = "none"
    /\ Top.fn = "lineParser"
    /\ Top.at = "loop"
    /\ Len(Top.line) <= MaxLen
    /\ Len(Top.linestack) < MaxIter

\* Lines 175-178, 240-251: no tag is left; unescape and return.
LineParserReturn ==
    /\ AtLoop
    /\ \E f \in {Searched(Top)} : ~f.m.ok
    /\ stack' = Below
    /\ reg' = RegVal(PyStr(AtxSub(Top.line)))
    /\ pre' = Top.line
    /\ UNCHANGED <<obj, alreadyCaught, out, calls, ncalls, given>>

\* Lines 175-186: a tag with an argument list; lineParser is called on it.
LineParserArgs ==
    /\ AtLoop
    /\ Len(stack) < MaxDepth
    /\ \E f \in {Searched(Top)} :
           /\ f.m.ok
           /\ f.m.args # <<>>
           /\ stack' = Below \o <<[f EXCEPT !.at = "args"]>>
                             \o <<LineFrame(f.ctx, f.m.args)>>
    /\ UNCHANGED <<obj, reg, alreadyCaught, out, calls, ncalls, given, pre>>

\* Lines 175-239: a tag without an argument list is replaced.
LineParserSubst ==
    /\ AtLoop
    /\ \E f \in {Searched(Top)} :
           /\ f.m.ok
           /\ f.m.args = <<>>
           /\ Settle(Below, f, <<>>, <<>>)

\* LineParserArgsBack with the unresolved argument text passed on.
LineParserArgsBack_Raw ==
    /\ stack # <<>>
    /\ reg.k = "val"
    /\ Top.fn = "lineParser"
    /\ Top.at = "args"
    /\ Settle(Below, Top, Top.m.args, pre)

\* Lines 186-239: the argument list came back resolved; the tag is replaced.
LineParserArgsBack ==
    /\ stack # <<>>
    /\ reg.k = "val"
    /\ Top.fn = "lineParser"
    /\ Top.at = "args"
    /\ Settle(Below, Top, reg.v.v, pre)

\* Line 186 stands outside the try block: an exception of the inner
\* lineParser leaves the outer one as it is.
LineParserArgsRaise ==
    /\ stack # <<>>
    /\ reg.k = "exc"
    /\ Top.fn = "lineParser"
    /\ Top.at = "args"
    /\ stack' = Below
    /\ UNCHANGED <<obj, reg, alreadyCaught, out, calls, ncalls, given, pre>>

\* Lines 204-239: the Parse a tag method called has returned or raised.
LineParserCallBack ==
    /\ stack # <<>>
    /\ reg.k # "none"
    /\ Top.fn = "lineParser"
    /\ Top.at = "call"
    /\ Finish(Below, Top, Top.gottag,
              IF reg.k = "val" THEN Ret(reg.v, obj, <<>>) ELSE Raise(reg.v, obj, <<>>),
              <<>>)
    /\ UNCHANGED <<calls, ncalls, given>>

\* Parse(infile, context) called from outside (lines 132-145).
ParseCall(c, infile) ==
    /\ stack = <<>>
    /\ ncalls < MaxCalls
    /\ ncalls' = ncalls + 1
    /\ given' = [ctx |-> c, text |-> infile]
    /\ LET pe == ParseEnter(obj, c, infile)
       IN  /\ obj' = pe.o
           /\ IF pe.k = "raise"
              THEN stack' = <<>> /\ reg' = RegExc(pe.v)
              ELSE stack' = <<ParseFrame(c, infile, FileSystem[infile])>> /\ reg' = RegNone
    /\ UNCHANGED <<alreadyCaught, out, calls, pre>>

\* Lines 147-149: the next line goes to lineParser.
ParseLine ==
    /\ stack # <<>>
    /\ reg.k = "none"
    /\ Top.fn = "Parse"
    /\ Top.at = "loop"
    /\ Top.lines # <<>>
    /\ Len(stack) < MaxDepth
    /\ stack' = Below \o <<[Top EXCEPT !.at = "line"]>>
                      \o <<LineFrame(Top.ctx, Head(Top.lines))>>
    /\ UNCHANGED <<obj, reg, alreadyCaught, out, calls, ncalls, given, pre>>

\* Lines 149-151: the line came back.
ParseLineBack ==
    /\ stack # <<>>
    /\ reg.k = "val"
    /\ Top.fn = "Parse"
    /\ Top.at = "line"
    /\ stack' = Below \o <<[Top EXCEPT !.at = "loop", !.lines = Tail(@),
                                      !.newtext = @ \o reg.v.v,
                                      !.linecount = @ + 1]>>
    /\ reg' = RegNone
    /\ UNCHANGED <<obj, alreadyCaught, out, calls, ncalls, given, pre>>

\* Lines 152-155: lineParser raised.  A ValueError is unpacked as
\* (tag, tline), reported and raised again; any other exception passes.
ParseLineRaise ==
    /\ stack # <<>>
    /\ reg.k = "exc"
    /\ Top.fn = "Parse"
    /\ Top.at = "line"
    /\ stack' = Below
    /\ IF reg.v.v.type # "ValueError"
       THEN UNCHANGED <<reg, out>>
       ELSE IF Len(reg.v.v.args) = 2
       THEN /\ out' = Append(out, PrAt(Top.infile, Top.linecount))
            /\ UNCHANGED reg
       ELSE /\ reg' = RegExc(Exc("ValueError", "unpack", <<>>))
            /\ UNCHANGED out
    /\ UNCHANGED <<obj, alreadyCaught, calls, ncalls, given, pre>>

\* Lines 156-158: no line is left; pop the directory and return the text.
ParseReturn ==
    /\ stack # <<>>
    /\ reg.k = "none"
    /\ Top.fn = "Parse"
    /\ Top.at = "loop"
    /\ Top.lines = <<>>
    /\ LET r == CallMethod(obj, Top.ctx, M_popdir, <<>>)
       IN  /\ obj' = r.o
           /\ reg' = IF r.k = "raise" THEN RegExc(r.v) ELSE RegVal(PyStr(Top.newtext))
    /\ stack' = Below
    /\ UNCHANGED <<alreadyCaught, out, calls, ncalls, given, pre>>

(***************************************************************************)
(* The contexts the model starts from: a root (1), its child ns (2) and    *)
(* the child gs (3) of ns, built by Context.__init__, addContext,          *)
(* tagDefine and tagDefault.  The current context cur (1 or 2) is a        *)
(* MyContext with the tag methods GREET, boom, bang and I and the tags of  *)
(* StdTags; each context binds X to a text of its own.                     *)
(***************************************************************************)
RECURSIVE DefineAll(_, _, _)
DefineAll(o, c, defs) ==
    IF defs = <<>> THEN o
    ELSE DefineAll(TagDefine(o, c, defs[1][1], PyStr(defs[1][2])).o, c, Tail(defs))

RECURSIVE DefaultAll(_, _)
DefaultAll(self, defs) ==
    IF defs = <<>> THEN self
    ELSE DefaultAll(TagDefault(self, defs[1][1], PyStr(defs[1][2])), Tail(defs))

S_ns == <<"n","s">>

S_gs == <<"g","s">>

T_GREET == <<"G","R","E","E","T">>

T_WHO == <<"W","H","O">>

T_FOO == <<"F","O","O">>

T_boom == <<"b","o","o","m">>

T_bang == <<"b","a","n","g">>

S_world == <<"w","o","r","l","d">>

S_done == <<"d","o","n","e">>

StdTags ==
    << <<<<"A">>, <<"@","B","@">>>>, <<<<"B">>, S_done>>, <<T_WHO, S_world>>,
       <<T_FOO, <<"f","o","o">>>>, <<<<"R">>, <<"@","R","@">>>>,
       <<<<"P">>, <<"@","Q","@">>>>, <<<<"Q">>, <<"@","P","@">>>> >>

\* The sets of defaults a context is given.
DefaultSets ==
    {<<>>,
     << <<<<"C">>, <<"d","f","t">>>>, <<<<"E">>, <<>>>> >>,
     << <<S_UNDEFINED, <<"u","d">>>> >>}

\* The extra tags a context is given.
ExtraTagSets == {<<>>, << <<S_UNDEFINED, <<"u">>>> >>}

MyContext(self) ==
    DictSet(DictSet(DictSet(DictSet(DictSet(DictSet(self,
        T_GREET, Fn("greet")), T_boom, Fn("boom")), T_bang, Fn("bang")),
        <<"I">>, Fn("include")), <<"F">>, Fn("greet")), <<"G">>, Fn("greet"))

BuildStore(curName, cur, unk, dfl, extra, dflts) ==
    LET rootName  == IF cur = 1 THEN curName ELSE S_Dot
        childName == IF cur = 2 THEN curName ELSE S_ns
        root0  == ContextInit(rootName, 1, 1, PyNone)
        child0 == ContextInit(childName, 2, 1, root0)
        gs0    == ContextInit(S_gs, 3, 2, child0)
        o0 == (1 :> AddContext(root0, childName, 2)) @@
              (2 :> AddContext(child0, S_gs, 3)) @@
              (3 :> gs0)
        o1 == DefineAll(DefineAll(DefineAll(o0,
                  1, << <<<<"X">>, <<"r">>>> >>),
                  2, << <<<<"X">>, <<"y">>>> >>),
                  3, << <<<<"X">>, <<"d">>>> >>)
        o2 == DefineAll(o1, cur, StdTags \o extra)
        me == DefaultAll(MyContext(o2[cur]), dflts)
    IN  [o2 EXCEPT ![cur] =
            DictSet(DictSet(me, A_ALLOW_UNKNOWN_TAGS, PyInt(unk)),
                    A_ALLOW_DEFAULT_TAGS, dfl)]

\* The lines lineParser is given.
Lines ==
    {<<"@","A","@">>,
     <<"@","n","s",".","X","@">>,
     <<"@","g","s",".","X","@">>,
     <<"@","z","z",".","X","@">>,
     <<"a","@","@","@","b">>,
     <<"@","@","@","F","O","O","@">>,
     <<"@","G","R","E","E","T","(","w","o","r","l","d",")","@">>,
     <<"@","G","R","E","E","T","(","@","W","H","O","@",")","@">>,
     <<"@","C","@">>,
     <<"@","E","@">>,
     <<"@","Z","@">>,
     <<"@","G","R","E","E","T","(","@","@","@","X","@",")","@">>,
     <<"@","b","o","o","m","@">>,
     <<"@","b","a","n","g","@">>,
     <<"@","b","o","o","m","(","x",")","@">>,
     <<"@","n","a","m","e","@">>,
     <<"@","p","o","p","d","i","r","@">>,
     <<"@","c","u","r","d","i","r","@">>,
     <<"@","@","A","@">>,
     <<"@","A","@","@","B","@">>,
     <<"@","@","@","@","A","@">>,
     <<"@","R","@">>,
     <<"@","G","R","E","E","T","(","@","Z","@",")","@">>,
     <<"@","G","R","E","E","T","(","@","z","z",".","X","@",")","@">>,
     <<"@","X","@"," ","@","Z","@">>,
     <<"@","A","@","@","Z","@">>,
     <<"@","F","O","O","(","x",")","@">>,
     <<"@","G","R","E","E","T","(","a",",","b",")","@">>,
     <<"@","G","R","E","E","T","(",")","@">>,
     <<"@","G","R","E","E","T","(","a"," ","b",")","@">>,
     <<"@","U","N","D","E","F","I","N","E","D","@">>,
     <<"@","n","s",".","Z","@">>,
     <<"@","z","z",".","A","@">>,
     <<"@","z","z",".","Z","@">>,
     <<"@","Z","@","@","R","@">>,
     <<"@","Z","@"," ","@","R","@">>,
     <<"@","P","@">>,
     <<"@","F","(","a",")","@"," ","@","G","(","b",")","@">>,
     <<"x">>,
     <<>>}

\* The state in which lineParser(line, context) has just been called.
Init ==
    \E curName \in {S_Dot, S_gotns}, cur \in {1, 2}, unk \in {0, 1},
       dfl \in {PyBool(TRUE), PyInt(0)}, extra \in ExtraTagSets,
       dflts \in DefaultSets, line \in Lines :
        /\ obj = BuildStore(curName, cur, unk, dfl, extra, dflts)
        /\ stack = <<LineFrame(cur, line)>>
        /\ reg = RegNone
        /\ alreadyCaught = FALSE
        /\ out = <<>>
        /\ calls = <<>>
        /\ ncalls = 0
        /\ given = [ctx |-> cur, text |-> line]
        /\ pre = <<>>

Next ==
    \/ LineParserReturn
    \/ LineParserArgs
    \/ LineParserSubst
    \/ LineParserArgsBack
    \/ LineParserArgsRaise

Spec == Init /\ [][Next]_vars

(***************************************************************************)
(* Calls of lineParser with the root as the current context, from the      *)
(* state before the caller has built the contexts; a call of lineParser    *)
(* that can take a step takes one: the interpreter runs on.                *)
(***************************************************************************)
InitIdle ==
    /\ obj = <<>>
    /\ stack = <<>>
    /\ reg = RegNone
    /\ alreadyCaught = FALSE
    /\ out = <<>>
    /\ calls = <<>>
    /\ ncalls = 0
    /\ given = [ctx |-> 1, text |-> <<>>]
    /\ pre = <<>>

\* The caller builds the contexts and calls lineParser(line, context), with
\* a line short enough for what it grows into to stay within MaxLen.
LineParserCall ==
    /\ stack = <<>>
    /\ ncalls = 0
    /\ ncalls' = 1
    /\ \E unk \in {0, 1}, dflts \in DefaultSets,
          line \in {l \in Lines : Len(l) + 2 <= MaxLen} :
           /\ obj' = BuildStore(S_Dot, 1, unk, PyBool(TRUE), <<>>, dflts)
           /\ stack' = <<LineFrame(1, line)>>
           /\ given' = [ctx |-> 1, text |-> line]
    /\ UNCHANGED <<reg, alreadyCaught, out, calls, pre>>

NextFair ==
    \/ LineParserCall
    \/ Next

\* Once lineParser is called the interpreter runs it, one thread and nothing
\* to wait for: a step of the call that can be taken is taken.  Whether the
\* caller calls at all is left open.
FairSpec == InitIdle /\ [][NextFair]_vars /\ WF_vars(Next)

(***************************************************************************)
(* Parse called from outside, up to MaxCalls times, on the files of        *)
(* FileSystem.                                                             *)
(***************************************************************************)
InitParse ==
    \E cur \in {1, 2}, unk \in {0, 1} :
        /\ obj = BuildStore(S_Dot, cur, unk, PyBool(TRUE), <<>>, <<>>)
        /\ stack = <<>>
        /\ reg = RegNone
        /\ alreadyCaught = FALSE
        /\ out = <<>>
        /\ calls = <<>>
        /\ ncalls = 0
        /\ given = [ctx |-> cur, text |-> <<>>]
        /\ pre = <<>>

NextParse ==
    \/ \E infile \in DOMAIN FileSystem : ParseCall(given.ctx, infile)
    \/ ParseLine
    \/ ParseLineBack
    \/ ParseLineRaise
    \/ ParseReturn
    \/ LineParserReturn
    \/ LineParserArgs
    \/ LineParserSubst
    \/ LineParserArgsBack
    \/ LineParserArgsRaise
    \/ LineParserCallBack

SpecParse == InitParse /\ [][NextParse]_vars

(***************************************************************************)
(* tagDefine called from outside, up to MaxCalls times, on two contexts    *)
(* fresh from Context.__init__ whose flags the caller has set.             *)
(***************************************************************************)
\* The tag names and the texts tagDefine is called with.
DefineTags == {<<"A">>, A_name, M_popdir}

DefineTexts == {<<"v">>, <<"w">>}

\* What tagDefine(tag, text) on Context c did: the attribute before and
\* after it (PyNone for none), the flags, and how it ended.
DefineRecord(c, tag, text, r) ==
    [ctx  |-> c,
     tag  |-> tag,
     text |-> text,
     over |-> Truthy(obj[c][A_ALLOW_TAG_OVERRIDES]),
     app  |-> Truthy(obj[c][A_ENABLE_TAG_APPENDS]),
     old  |-> IF HasAttr(obj[c], tag) THEN GetAttr(obj[c], tag) ELSE PyNone,
     new  |-> IF HasAttr(r.o[c], tag) THEN GetAttr(r.o[c], tag) ELSE PyNone,
     res  |-> [k |-> r.k, v |-> r.v]]

\* context.tagDefine(tag, text) called from outside.
TagDefineCall(c, tag, text) ==
    /\ stack = <<>>
    /\ ncalls < MaxCalls
    /\ ncalls' = ncalls + 1
    /\ LET r == TagDefine(obj, c, tag, PyStr(text))
       IN  /\ obj' = r.o
           /\ reg' = IF r.k = "raise" THEN RegExc(r.v) ELSE RegVal(r.v)
           /\ out' = out \o r.pr
           /\ calls' = Append(calls, DefineRecord(c, tag, text, r))
    /\ given' = [ctx |-> c, text |-> tag]
    /\ UNCHANGED <<stack, alreadyCaught, pre>>

InitDefine ==
    \E over \in {0, 1}, app \in {0, 1} :
        LET root0  == ContextInit(S_Dot, 1, 1, PyNone)
            child0 == ContextInit(S_ns, 2, 1, root0)
            flags(self) == DictSet(DictSet(self, A_ALLOW_TAG_OVERRIDES, PyInt(over)),
                                   A_ENABLE_TAG_APPENDS, PyInt(app))
        IN  /\ obj = (1 :> flags(AddContext(root0, S_ns, 2))) @@ (2 :> flags(child0))
            /\ stack = <<>>
            /\ reg = RegNone
            /\ alreadyCaught = FALSE
            /\ out = <<>>
            /\ calls = <<>>
            /\ ncalls = 0
            /\ given = [ctx |-> 1, text |-> <<>>]
            /\ pre = <<>>

NextDefine ==
    \E c \in {1, 2}, tag \in DefineTags, text \in DefineTexts : TagDefineCall(c, tag, text)

SpecDefine == InitDefine /\ [][NextDefine]_vars

(***************************************************************************)
(* The tag definition patterns tdrex, ebrex and yamlrex (lines 81-88),     *)
(* matched at the start of a line of a definitions file.                   *)
(***************************************************************************)
\* [()_0-9a-zA-Z \-]
TdTagChars == TagChars \cup {"(", ")"}

Quotes == {"'", "\""}

\* The characters outside [^'^".]
YamlStops == {"'", "^", "\"", "."}

\* No match (match returns None).
NoDef == [ok |-> FALSE, ns |-> <<>>, tag |-> <<>>, val |-> <<>>]

\* [_a-zA-Z]+[()_0-9a-zA-Z \-]* matches all of t.
ValidTag(t) ==
    /\ t # <<>>
    /\ t[1] \in TagStartChars
    /\ \A j \in 1..Len(t) : t[j] \in TdTagChars

\* (([_\.a-zA-Z0-9]*)\.)?([_a-zA-Z]+[()_0-9a-zA-Z \-]*) matches all of
\* head: the namespace (group 2, <<>> when empty or absent) and the tag
\* (group 3), the value being val.
DefHead(head, val) ==
    LET dots == {j \in 1..Len(head) : head[j] = "."}
        d    == IF dots = {} THEN 0 ELSE SetMax(dots)
        ns   == SubSeq(head, 1, d - 1)
        tag  == SubSeq(head, d + 1, Len(head))
    IN  IF ValidTag(tag) /\ \A j \in 1..Len(ns) : ns[j] \in NsChars
        THEN [ok |-> TRUE, ns |-> ns, tag |-> tag, val |-> val]
        ELSE NoDef

\* s without the newline it ends in, if it does: where $ matches.
Chomp(s) ==
    IF s # <<>> /\ s[Len(s)] = "\n" THEN SubSeq(s, 1, Len(s) - 1) ELSE s

\* tdrex.match(line)
TdrexMatch(line) ==
    LET tabs == {j \in 1..Len(line) : line[j] = "\t"}
        t    == IF tabs = {} THEN 0 ELSE SetMin(tabs)
        e    == RunEnd(line, t, {"\t"})
        val  == Chomp(SubSeq(line, e, Len(line)))
    IN  IF tabs = {} \/ \E j \in 1..Len(val) : val[j] = "\n" THEN NoDef
        ELSE DefHead(SubSeq(line, 1, t - 1), val)

S_export == <<"e","x","p","o","r","t"," ">>

\* ebrex.match(line)
EbrexMatch(line) ==
    LET eqs == {j \in 8..Len(line) : line[j] = "="}
        e   == IF eqs = {} THEN 0 ELSE SetMin(eqs)
        b   == Chomp(SubSeq(line, e + 1, Len(line)))
        val == SubSeq(b, 2, Len(b) - 1)
    IN  IF \/ Len(line) < 7
           \/ SubSeq(line, 1, 7) # S_export
           \/ eqs = {}
           \/ Len(b) < 2
           \/ b[1] \notin Quotes
           \/ b[Len(b)] \notin Quotes
           \/ \E j \in 1..Len(val) : val[j] = "\n"
        THEN NoDef
        ELSE DefHead(SubSeq(line, 8, e - 1), val)

\* ([^'^".]*)['"]?$ matched at the start of s: the value, or no match.
YamlTail(s) ==
    LET n     == Len(s)
        stops == {j \in 1..n : s[j] \in YamlStops}
        l     == IF stops = {} THEN n ELSE SetMin(stops) - 1
        EndOK(i) == i = n + 1 \/ (i = n /\ s[n] = "\n")
    IN  IF (l + 1 <= n /\ s[l + 1] \in Quotes /\ EndOK(l + 2)) \/ EndOK(l + 1)
        THEN [ok |-> TRUE, val |-> SubSeq(s, 1, l)]
        ELSE [ok |-> FALSE, val |-> <<>>]

\* yamlrex.match(line)
YamlrexMatch(line) ==
    LET eqs  == {j \in 1..Len(line) : line[j] = "="}
        e    == IF eqs = {} THEN 0 ELSE SetMin(eqs)
        rest == SubSeq(line, e + 1, Len(line))
        q    == IF rest # <<>> /\ rest[1] \in Quotes /\ YamlTail(Tail(rest)).ok
                THEN YamlTail(Tail(rest)) ELSE YamlTail(rest)
    IN  IF eqs = {} \/ ~q.ok THEN NoDef
        ELSE DefHead(SubSeq(line, 1, e - 1), q.val)

\* tdrexes[n].match(line)
DefMatch(n, line) ==
    CASE n = "nv_tab" -> TdrexMatch(line)
      [] n = "eb_env" -> EbrexMatch(line)
      [] OTHER        -> YamlrexMatch(line)

(***************************************************************************)
(* autoSelectTD and loadTagDefs (lines 388-444), on a file given by its    *)
(* lines.                                                                  *)
(***************************************************************************)
\* The keys of tdrexes (line 91).
FormatNames == {"nv_tab", "eb_env", "nv_yaml"}

\* The orders tdrexes.keys() can list them in: the order of the keys of a
\* dict is that of their hashes, which the build of the interpreter fixes.
KeyOrders ==
    {w \in [1..3 -> FormatNames] : \A a, b \in 1..3 : a # b => w[a] # w[b]}

\* Lines 396 and 420: the line is no comment and not blank.
IsDefLine(line) == line # <<>> /\ line[1] # "#" /\ line[1] # "\n"

\* Context.autoSelectTD (lines 388-407), the formats tried in the order
\* order: every format that matches a line is assigned to tdrex in its
\* turn (the break of line 401 leaves the loop over the lines; auto_rex
\* stays None, so the loop over the formats runs to its end).
RECURSIVE AutoSelectTD(_, _, _)
AutoSelectTD(self, lines, order) ==
    IF order = <<>> THEN self
    ELSE LET hit == \E j \in 1..Len(lines) :
                       IsDefLine(lines[j]) /\ DefMatch(order[1], lines[j]).ok
         IN  AutoSelectTD(IF hit THEN DictSet(self, A_tdrex, Rex(order[1])) ELSE self,
                          lines, Tail(order))

\* string.strip(s, ' \t')
Strip(s) ==
    LET keep == {j \in 1..Len(s) : s[j] \notin {" ", "\t"}}
    IN  IF keep = {} THEN <<>> ELSE SubSeq(s, SetMin(keep), SetMax(keep))

\* Lines 426-435: the context a definition with namespace ns goes to, made
\* and added when self has no such subcontext; o is the store afterwards.
TargetContext(o, c, ns) ==
    LET found == GetContext(o[c], ns)
        new   == SetMax(DOMAIN o) + 1
    IN  IF ns = <<>> THEN [o |-> o, ctx |-> c]
        ELSE IF Truthy(found) THEN [o |-> o, ctx |-> found.v]
        ELSE [o   |-> [x \in DOMAIN o \cup {new} |->
                         IF x = new THEN ContextInit(ns, new, c, o[c])
                         ELSE IF x = c THEN AddContext(o[c], ns, new)
                         ELSE o[x]],
              ctx |-> new]

\* The loop of loadTagDefs (lines 417-444) over the lines left.  No call
\* in the try block raises ValueError, so whatever tagDefine raises leaves
\* loadTagDefs.
RECURSIVE LoadLines(_, _, _, _)
LoadLines(o, c, lines, pr) ==
    IF lines = <<>> THEN Ret(PyNone, o, pr)
    ELSE IF ~IsDefLine(lines[1]) THEN LoadLines(o, c, Tail(lines), pr)
    ELSE IF o[c][A_tdrex].k # "rex" THEN Raise(Exc("AttributeError", "", <<>>), o, pr)
    ELSE LET m == DefMatch(o[c][A_tdrex].v, lines[1])
             t == TargetContext(o, c, m.ns)
             r == TagDefine(t.o, t.ctx, m.tag, PyStr(Strip(m.val)))
         IN  IF ~m.ok
             THEN LoadLines(o, c, Tail(lines),
                            Append(pr, Pr("Invalid tag definition", lines[1])))
             ELSE IF r.k = "raise" THEN Raise(r.v, r.o, pr \o r.pr)
             ELSE LoadLines(r.o, c, Tail(lines), pr \o r.pr)

\* Context.loadTagDefs(infile) on Context c (lines 409-444), lines being
\* the lines of infile.
LoadTagDefs(o, c, lines, order) ==
    LET self == IF Truthy(o[c][A_AUTO_SELECT_TD])
                THEN AutoSelectTD(o[c], lines, order) ELSE o[c]
    IN  LoadLines([o EXCEPT ![c] = self], c, lines, <<>>)

\* The definitions files loadTagDefs is given.
DefFiles ==
    {<< <<"A","\t","1","\n">>, <<"B","\t","2","\n">> >>,
     << <<"e","x","p","o","r","t"," ","A","=","'","v","'","\n">> >>,
     << <<"A","\t","1","\n">>, <<"B","=","2","\n">> >>,
     << <<"A","\t","1","\n">>, <<"A","\t","2","\n">>, <<"B","\t","3","\n">> >>,
     << <<"#"," ","c","\n">>, <<"\n">>, <<"j","u","n","k","\n">>,
        <<"n","s",".","X","\t","y","\n">>, <<"C","\t"," ","v"," ","\n">> >>,
     << <<"A","=","v","\n">> >>}

\* What loadTagDefs(lines) on Context c did: the format of the context
\* before, the format it loaded with, and how it ended.
LoadRecord(c, lines, order, r) ==
    [ctx   |-> c,
     lines |-> lines,
     order |-> order,
     auto  |-> Truthy(obj[c][A_AUTO_SELECT_TD]),
     was   |-> obj[c][A_tdrex],
     used  |-> (IF Truthy(obj[c][A_AUTO_SELECT_TD])
                THEN AutoSelectTD(obj[c], lines, order) ELSE obj[c])[A_tdrex],
     res   |-> [k |-> r.k, v |-> r.v]]

\* context.loadTagDefs(infile) called from outside.
LoadTagDefsCall(c, lines, order) ==
    /\ stack = <<>>
    /\ ncalls < MaxCalls
    /\ ncalls' = ncalls + 1
    /\ LET r == LoadTagDefs(obj, c, lines, order)
       IN  /\ obj' = r.o
           /\ reg' = IF r.k = "raise" THEN RegExc(r.v) ELSE RegVal(r.v)
           /\ out' = out \o r.pr
           /\ calls' = Append(calls, LoadRecord(c, lines, order, r))
    /\ given' = [ctx |-> c, text |-> <<>>]
    /\ UNCHANGED <<stack, alreadyCaught, pre>>

InitLoad ==
    \E over \in {0, 1}, app \in {0, 1}, auto \in {TRUE, FALSE} :
        /\ obj = (1 :> DictSet(DictSet(DictSet(ContextInit(S_Dot, 1, 1, PyNone),
                         A_ALLOW_TAG_OVERRIDES, PyInt(over)),
                         A_ENABLE_TAG_APPENDS, PyInt(app)),
                         A_AUTO_SELECT_TD, PyBool(auto)))
        /\ stack = <<>>
        /\ reg = RegNone
        /\ alreadyCaught = FALSE
        /\ out = <<>>
        /\ calls = <<>>
        /\ ncalls = 0
        /\ given = [ctx |-> 1, text |-> <<>>]
        /\ pre = <<>>

NextLoad ==
    \E lines \in DefFiles, order \in KeyOrders : LoadTagDefsCall(1, lines, order)

SpecLoad == InitLoad /\ [][NextLoad]_vars

(***************************************************************************)
(* Properties of lineParser, checked under Spec.                           *)
(***************************************************************************)
\* The call from outside has ended.
Ended == stack = <<>> /\ reg.k # "none"

\* Index q of s can open a tag: the boundary group of rex matches before it.
BoundaryBefore(s, q) ==
    \/ q = 1
    \/ s[q - 1] # "@"
    \/ (q >= 4 /\ \A j \in (q - 3)..(q - 1) : s[j] = "@")

\* s holds a placeholder: somewhere rex matches.
HasPlaceholder(s) ==
    \E q \in 1..Len(s) : BoundaryBefore(s, q) /\ RexRest(s, q).ok

\* The exception at the bottom of the chain ValueError(ValueError(..), line).
RECURSIVE RootCause(_)
RootCause(e) ==
    IF e.v.args # <<>> /\ e.v.args[1].k = "exc" THEN RootCause(e.v.args[1]) ELSE e

\* ','.join(argv)
RECURSIVE JoinCommas(_)
JoinCommas(argv) ==
    IF argv = <<>> THEN <<>>
    ELSE IF Len(argv) = 1 THEN argv[1]
    ELSE argv[1] \o <<",">> \o JoinCommas(Tail(argv))

\* The undefined-tag failure replace raises for tag t.
UndefinedTag(t) == Exc("ValueError", "", <<PyStr(t)>>)

\* C1: lineParser substitutes until no tag is left: whenever it returns, the
\* line it had before the final unescape holds no placeholder, so every
\* placeholder a replacement text brought in has been expanded; with
\* A -> "@B@" and B -> "done", "@A@" resolves to "done".
C1_RecursiveSubstitution ==
    reg.k = "val" =>
        /\ ~HasPlaceholder(pre)
        /\ (stack = <<>> /\ given.text = <<"@","A","@">>) => reg.v = PyStr(S_done)

C1_Witness ==
    /\ Ended
    /\ given.text = <<"@","A","@">>
    /\ reg = RegVal(PyStr(S_done))
    /\ Len(calls) = 2

\* C2: under every current context, whatever its name, a placeholder @N.T@
\* whose N is a direct child is looked up in that child, as T, and a text
\* bound to T there is the replacement; N is looked for among the direct
\* children only, so that with N unknown T is looked up nowhere (the tag
\* looked up is UNDEFINED).
C2_ScopedResolution ==
    \A i \in 1..Len(calls) :
        LET r    == calls[i]
            kids == obj[r.in][A_subcontexts].v
        IN  r.ns # <<>> =>
              IF r.ns \in DOMAIN kids
              THEN /\ r.ctx = kids[r.ns]
                   /\ r.tag = r.name
                   /\ (HasAttr(obj[kids[r.ns]], r.name)
                          /\ GetAttr(obj[kids[r.ns]], r.name).k = "str")
                        => r.res = [k |-> "ret", v |-> GetAttr(obj[kids[r.ns]], r.name)]
              ELSE r.tag = S_UNDEFINED /\ r.ctx = r.in

\* The call r of replace came from a placeholder whose namespace is no direct
\* child of the context lineParser was called with.
UnknownNs(r) == r.ns # <<>> /\ r.ns \notin DOMAIN obj[r.in][A_subcontexts].v

\* Context self can give no text for tag t: no attribute, no default, and
\* unknown tags are not allowed.
Unresolvable(self, t) ==
    /\ ~HasAttr(self, t)
    /\ t \notin DOMAIN self[A_tagDefaults].v
    /\ ~Truthy(self[A_ALLOW_UNKNOWN_TAGS])

C4_EscapeHandling ==
    /\ (reg.k = "val" /\ reg.v.v # pre) => stack = <<>>
    /\ (Ended /\ given.text = <<"a","@","@","@","b">>)
          => reg = RegVal(PyStr(<<"a","@","b">>))
    /\ (Ended /\ given.text = <<"@","@","@","F","O","O","@">>)
          => reg = RegVal(PyStr(<<"@","F","O","O","@">>))
    /\ given.text = <<"@","G","R","E","E","T","(","@","@","@","X","@",")","@">>
          => \A i \in 1..Len(calls) : calls[i].name # <<"X">>

\* C5: when a placeholder with an argument text calls a callable, the
\* argument text was resolved first (lineParser returned for it: nothing was
\* left to expand, and an argument text without placeholders is passed as it
\* is) and the callable gets the resolved text, cut at the commas;
\* "@GREET(world)@" and "@GREET(@WHO@)@" give "hello, world".
C5_ArgumentPassing ==
    /\ \A i \in 1..Len(calls) :
          LET r == calls[i]
          IN  (r.raw # <<>> /\ r.inv # <<>>) =>
                 /\ ~HasPlaceholder(r.prearg)
                 /\ ~HasPlaceholder(r.raw) => r.prearg = r.raw
                 /\ r.resolved = AtxSub(r.prearg)
                 /\ JoinCommas(r.inv[1]) = RemoveSpaces(r.resolved)
    /\ (Ended /\ given.text \in {<<"@","G","R","E","E","T","(","w","o","r","l","d",")","@">>,
                                 <<"@","G","R","E","E","T","(","@","W","H","O","@",")","@">>})
          => reg = RegVal(PyStr(S_hello \o S_world))

C5_Witness ==
    /\ Ended
    /\ given.text = <<"@","G","R","E","E","T","(","@","W","H","O","@",")","@">>
    /\ reg = RegVal(PyStr(S_hello \o S_world))
    /\ \E i \in 1..Len(calls) :
          /\ calls[i].tag = T_GREET
          /\ calls[i].raw = <<"@","W","H","O","@">>
          /\ calls[i].inv = << <<S_world>> >>

\* C6: in replace, a tag without a binding, with allowDefaultTags set and a
\* default stored for it, gets that default, whatever text it is; the
\* passthrough and the undefined-tag failure need that no default is stored.
C6_DefaultFallback ==
    \A i \in 1..Len(calls) :
        LET r    == calls[i]
            self == obj[r.ctx]
            td   == self[A_tagDefaults].v
        IN  (/\ ~HasAttr(self, r.tag)
             /\ Truthy(self[A_ALLOW_DEFAULT_TAGS])
             /\ r.tag \in DOMAIN td) => r.res = [k |-> "ret", v |-> td[r.tag]]

\* C7: with allowUnknownTags and allowDefaultTags off and no binding for the
\* tag in the context it is looked up in, replace raises the undefined-tag
\* failure naming the tag, and lineParser ends in that failure, returning no
\* text; so does "@Z@".
C7_UndefinedTagStrict ==
    /\ \A i \in 1..Len(calls) :
          LET r    == calls[i]
              self == obj[r.ctx]
          IN  (/\ ~Truthy(self[A_ALLOW_UNKNOWN_TAGS])
               /\ ~Truthy(self[A_ALLOW_DEFAULT_TAGS])
               /\ ~HasAttr(self, r.tag)) =>
                  /\ r.res = [k |-> "raise", v |-> UndefinedTag(r.tag)]
                  /\ reg.k = "exc"
                  /\ reg.v.v.type = "ValueError"
                  /\ RootCause(reg.v) = UndefinedTag(r.tag)
    /\ (/\ Ended
        /\ given.text = <<"@","Z","@">>
        /\ ~Truthy(obj[given.ctx][A_ALLOW_UNKNOWN_TAGS])
        /\ ~Truthy(obj[given.ctx][A_ALLOW_DEFAULT_TAGS]))
          => (reg.k = "exc" /\ RootCause(reg.v) = UndefinedTag(<<"Z">>))

C7_Witness ==
    /\ Ended
    /\ given.text = <<"@","Z","@">>
    /\ ~Truthy(obj[given.ctx][A_ALLOW_UNKNOWN_TAGS])
    /\ ~Truthy(obj[given.ctx][A_ALLOW_DEFAULT_TAGS])
    /\ reg.k = "exc"
    /\ RootCause(reg.v) = UndefinedTag(<<"Z">>)

\* C9: whenever a callable called for a placeholder raises, whatever it
\* raises, lineParser ends in the replacement-function failure that names
\* the tag, which is not the failure an undefined tag ends in.
C9_ReplacementFunctionFailure ==
    \A i \in 1..Len(calls) :
        LET r == calls[i]
        IN  (r.inv # <<>> /\ r.res.k = "raise") =>
               /\ reg.k = "exc"
               /\ reg.v.v.type # "ValueError"
               /\ reg.v.v.fmt = "Caught exception while parsing"
               /\ reg.v.v.args[1] = PyStr(r.tag)

(***************************************************************************)
(* Properties of tagDefine, checked under SpecDefine.                      *)
(***************************************************************************)
\* The i-th call of tagDefine was for a tag that an earlier call of
\* tagDefine has bound on the same context.
BoundEarlier(i) ==
    \E j \in 1..(i - 1) :
        /\ calls[j].ctx = calls[i].ctx
        /\ calls[j].tag = calls[i].tag
        /\ calls[j].res.k = "ret"

\* C8: tagDefine(tag, v) raises exactly when an earlier tagDefine bound tag
\* on the context and allowTagOverrides and enableTagAppends are both off,
\* and then leaves the binding as it was; a first bind binds tag to v, a
\* repeated bind with allowTagOverrides replaces the text by v, and
\* otherwise with enableTagAppends the text becomes old + ", " + v.
C8_ConflictPolicy ==
    \A i \in 1..Len(calls) :
        LET r == calls[i]
        IN  /\ r.res.k = "raise" <=> (BoundEarlier(i) /\ ~r.over /\ ~r.app)
            /\ r.res.k = "raise" => r.new = r.old
            /\ ~BoundEarlier(i) => r.new = PyStr(r.text)
            /\ (BoundEarlier(i) /\ r.over) => r.new = PyStr(r.text)
            /\ (BoundEarlier(i) /\ ~r.over /\ r.app)
                  => r.new = PyStr(r.old.v \o S_CommaSpace \o r.text)

(***************************************************************************)
(* Properties of Parse, checked under SpecParse.                           *)
(***************************************************************************)
\* C10: Parse pushes the directory of its file once and pops it once on
\* leaving, by return or by a failure of a line: whenever no call of Parse
\* is under way every context has the directory stack Context.__init__ gave
\* it; and while lineParser works on a line the directory stack of its
\* context is not empty.
C10_DirectoryStack ==
    /\ stack = <<>> => \A c \in DOMAIN obj : obj[c][A_dirname] = PyList(<<S_Dot>>)
    /\ \A i \in 1..Len(stack) :
          stack[i].fn = "lineParser" => obj[stack[i].ctx][A_dirname].v # <<>>

(***************************************************************************)
(* Properties of the failure reports, checked under SpecParse (C11) and    *)
(* under Spec (C16, C17).                                                  *)
(***************************************************************************)
\* C11: when lineParser fails on the k-th line of the file (k counted from
\* 1), with whatever failure, Parse reports the file and the line number k,
\* raises the failure again and works on no later line.
C11_FailureAnnotation ==
    [][ParseLineRaise =>
          /\ out' = Append(out, PrAt(Top.infile, Top.linecount + 1))
          /\ reg'.k = "exc"
          /\ stack' = Below]_vars

\* The line states lineParser's ValueError handler has printed, in the
\* order printed.
TraceKinds == {"in text", "from text", "from previous text", "from original text"}

IsTrace(p) == p.what \in TraceKinds

Trace == SelectSeq(out, IsTrace)

\* C16: when lineParser has failed on an undefined tag, the trace printed
\* starts with the line state the fault occurred in and ends with the line
\* lineParser was called with from outside, also when the fault occurred in
\* an argument text; when no argument text was involved it has one entry
\* for each of the k substitutions made and one for the fault.
C16_FailureTrace ==
    (/\ Ended
     /\ reg.k = "exc"
     /\ calls # <<>>
     /\ calls[Len(calls)].inv = <<>>
     /\ calls[Len(calls)].res = [k |-> "raise", v |-> UndefinedTag(calls[Len(calls)].tag)]) =>
        /\ Trace # <<>>
        /\ PyStr(Trace[1].text) = reg.v.v.args[2]
        /\ Trace[Len(Trace)].text = given.text
        /\ (\A i \in 1..Len(calls) : calls[i].raw = <<>>) => Len(Trace) = Len(calls)

\* C17: on "@F(a)@ @G(b)@", with F and G bound to the callable greet, the
\* first placeholder found is "@F(a)@" alone: F is called with <<"a">>, G
\* with <<"b">>, and the blank between the two is kept.
C17_IndependentPlaceholders ==
    (Ended /\ given.text = <<"@","F","(","a",")","@"," ","@","G","(","b",")","@">>) =>
        /\ reg = RegVal(PyStr(S_hello \o <<"a">> \o <<" ">> \o S_hello \o <<"b">>))
        /\ Len(calls) = 2
        /\ calls[1].tag = <<"F">> /\ calls[1].inv = << << <<"a">> >> >>
        /\ calls[2].tag = <<"G">> /\ calls[2].inv = << << <<"b">> >> >>

(***************************************************************************)
(* Properties of the tree of contexts, checked under SpecDefine.           *)
(***************************************************************************)
\* The attributes of a context that are no tags.
OwnFields ==
    {A_ALLOW_UNKNOWN_TAGS, A_ALLOW_DEFAULT_TAGS, A_ALLOW_TAG_OVERRIDES,
     A_ENABLE_TAG_APPENDS, A_ALLOW_TAG_DEFAULTS, A_AUTO_SELECT_TD,
     A_name, A_parent, A_subcontexts, A_dirname}

\* C15: whatever tags tagDefine is called with, the parent of every context
\* is a context, every entry k -> c of subcontexts has c.name = k, and a
\* call of tagDefine changes no context's name, parent, children, flags or
\* directory stack.
C15_ContextTree ==
    [][/\ \A c \in DOMAIN obj' :
             /\ obj'[c][A_parent].k = "ctx"
             /\ obj'[c][A_parent].v \in DOMAIN obj'
             /\ obj'[c][A_subcontexts].k = "dict"
             /\ \A k \in DOMAIN obj'[c][A_subcontexts].v :
                   obj'[obj'[c][A_subcontexts].v[k]][A_name] = PyStr(k)
       /\ \A c \in DOMAIN obj, a \in OwnFields : obj'[c][a] = obj[c][a]]_vars

(***************************************************************************)
(* Properties of loadTagDefs, checked under SpecLoad.                      *)
(***************************************************************************)
\* The formats, in the order tried, that match a line of the file.
Matching(order, lines) ==
    SelectSeq(order, LAMBDA n : \E j \in 1..Len(lines) :
                                   IsDefLine(lines[j]) /\ DefMatch(n, lines[j]).ok)

\* C12: with AUTO_SELECT_TD on, loadTagDefs loads the file with the first
\* of the formats, in the order they are tried, that matches one of its
\* lines that is no comment and not blank; a format tried later never
\* replaces it.
C12_FormatAutoDetection ==
    \A i \in 1..Len(calls) :
        LET r == calls[i]
        IN  (r.auto /\ Matching(r.order, r.lines) # <<>>)
                => r.used = Rex(Matching(r.order, r.lines)[1])

\* C13: loadTagDefs always returns, and every line of the file that the
\* format it loads with matches is bound afterwards, to a text, on the
\* context it names.
C13_LoaderRecovery ==
    calls # <<>> =>
        LET r == calls[Len(calls)]
        IN  /\ r.res.k = "ret"
            /\ \A j \in 1..Len(r.lines) :
                  LET m == DefMatch(r.used.v, r.lines[j])
                      t == IF m.ns = <<>> THEN PyRef(r.ctx)
                           ELSE GetContext(obj[r.ctx], m.ns)
                  IN  (IsDefLine(r.lines[j]) /\ m.ok) =>
                          /\ t.k = "ctx"
                          /\ HasAttr(obj[t.v], m.tag)
                          /\ GetAttr(obj[t.v], m.tag).k = "str"

(***************************************************************************)
(* Termination of lineParser, checked under FairSpec.                      *)
(***************************************************************************)
\* The tags of the placeholders of the text s.
Refs(s) ==
    {RexRest(s, q).tag : q \in {j \in 1..Len(s) : BoundaryBefore(s, j) /\ RexRest(s, j).ok}}

\* The text Context self replaces the tag t by, where it is a text.
TagText(self, t) ==
    IF HasAttr(self, t)
    THEN (IF GetAttr(self, t).k = "str" THEN GetAttr(self, t).v ELSE <<>>)
    ELSE IF t \in DOMAIN self[A_tagDefaults].v /\ self[A_tagDefaults].v[t].k = "str"
    THEN self[A_tagDefaults].v[t].v
    ELSE <<>>

\* The tags reachable in Context self from the tags T in at most n steps.
RECURSIVE ReachN(_, _, _)
ReachN(self, T, n) ==
    IF n = 0 THEN T
    ELSE ReachN(self, T \cup UNION {Refs(TagText(self, t)) : t \in T}, n - 1)

\* More steps than the contexts of the model have tags that refer to tags.
ReachSteps == 6

\* The tags reachable in the Context lineParser was called with from the
\* placeholders of the line it was called with.
Reachable == ReachN(obj[given.ctx], Refs(given.text), ReachSteps)

\* A tag reachable from the placeholders of the line lineParser was called
\* with expands to text containing itself, directly or through other tags.
Cyclic ==
    /\ ncalls > 0
    /\ \E t \in Reachable :
           t \in ReachN(obj[given.ctx], Refs(TagText(obj[given.ctx], t)), ReachSteps)

\* lineParser has replaced a tag that is none of the reachable ones: a
\* placeholder that a splice put together from the text on its two sides.
Stray == \E i \in 1..Len(calls) : calls[i].name \notin Reachable

\* lineParser is in its loop with MaxIter line states recorded and a tag
\* still to replace: it has gone round as often as the model follows it.
AtCap ==
    /\ stack # <<>>
    /\ reg.k = "none"
    /\ Top.fn = "lineParser"
    /\ Len(Top.linestack) = MaxIter
    /\ HasPlaceholder(Top.line)

\* C14 as claimed: if no reachable tag expands to text containing itself
\* then lineParser returns or fails, and if one does then lineParser never
\* ends: it goes round its loop for ever.
C14_TerminationAsClaimed ==
    /\ (ncalls > 0 /\ ~Cyclic) ~> Ended
    /\ [](Cyclic => ~Ended)

\* C14, amended: if no reachable tag expands to text containing itself then
\* lineParser returns or fails, unless a splice puts a placeholder together
\* that is none of the reachable tags; if a reachable tag does, lineParser
\* never returns a text: unless it fails on another placeholder first, it
\* goes round its loop for ever, no guard ending the loop.
C14_Termination ==
    /\ (ncalls > 0 /\ ~Cyclic) ~> (Ended \/ Stray)
    /\ [](Cyclic /\ ~Stray => ~(Ended /\ reg.k = "val"))
    /\ Cyclic ~> ((Ended /\ reg.k = "exc") \/ AtCap \/ Stray)

C14_Witness ==
    /\ Cyclic
    /\ ~Stray
    /\ given.text = <<"@","P","@">>
    /\ AtCap

====
